---- MODULE Spec2Model ----
(***************************************************************************)
(* Model of the RAG Telegram bot (rag_bot/bot.py, rag_bot/vector_store.py, *)
(* rag_bot/document_processor.py, main.py).                                *)
(*                                                                         *)
(* Four specifications share this module:                                  *)
(*   ChunkSpec - DocumentProcessor.split_text_into_chunks run as a loop,   *)
(*               one action per iteration, on every bounded text and       *)
(*               every configuration 0 <= chunk_overlap < chunk_size.      *)
(*   Spec      - the handlers of RAGBot run by the asyncio event loop of   *)
(*               python-telegram-bot with concurrent_updates(True): one    *)
(*               task per update, a task runs until it awaits.             *)
(*   SeqSpec   - the same handlers with the updates of one user delivered  *)
(*               one at a time.                                            *)
(*   FairSpec  - concurrent delivery with the event loop running every     *)
(*               ready task, and with the uploads on which the chunker     *)
(*               does not return.                                          *)
(* Positions in a text are 0-based as in Python; text[i] of the source is  *)
(* text[i + 1] here.                                                       *)
(***************************************************************************)
EXTENDS Integers, Sequences, FiniteSets, Bags, TLC

\* ------------------------------------------------------------------ bounds
MaxTextLen == 6
MaxChunkSize == 5

\* Updates dispatched in one run, by kind; updates of all kinds in one run
\* with concurrent delivery; handlers in flight at once.
MaxUploads == 2
MaxQuestions == 6
MaxClears == 1
MaxEvents == 4
MaxTasks == 2

\* ------------------------------------------------------- program constants
CHUNK_SIZE == 1000
CHUNK_OVERLAP == 200
MinTextLen == 50
MinQuestionLen == 3
NResults == 3
MemoryCap == 10
HistoryWindow == 6

Users == {1, 2}

\* Characters the bounded texts are built from: a letter, the period, and
\* the two whitespace characters the delimiters use.
Chars == {"a", ".", " ", "\n"}

\* --------------------------------------------------------------- variables
VARIABLES
    cText,      \* split_text_into_chunks: text
    cSize,      \* chunk_size
    cOverlap,   \* chunk_overlap
    cStart,     \* start
    cChunks,    \* chunks, each with the slice [lo, hi) it was cut from
    cPc,        \* "while" | "done" | "diverged"
    cSeen       \* window starts of the iterations run so far (history)

cvars == <<cText, cSize, cOverlap, cStart, cChunks, cPc, cSeen>>

VARIABLES
    client,       \* VectorStore.client: collection name -> entries
    collections,  \* VectorStore.collections: user id -> collection handle
    memories,     \* RAGBot.memories: user id -> list of turns
    temp_files,   \* RAGBot.temp_files: user id -> path
    disk,         \* the working directory: path -> uploaded document
    tasks,        \* handlers suspended at an await: position and local variables
    running,      \* the handler the event loop is running, Idle between tasks
    uploads,      \* document updates dispatched so far
    questions,    \* per user: text updates dispatched so far
    clears,       \* /clear updates dispatched so far
    last,         \* what the latest handler step did (history)
    lastOk,       \* per user: the latest successful ingest since the
                  \* latest /clear (history)
    cleared,      \* per user: /clear ran and no ingest step since (history)
    answeredFrom  \* per user: for each remembered turn, the document whose
                  \* chunks the completion that produced it was given (history)

bvars == <<client, collections, memories, temp_files, disk, tasks, running,
           uploads, questions, clears, last, lastOk, cleared, answeredFrom>>

vars == <<cText, cSize, cOverlap, cStart, cChunks, cPc, cSeen,
          client, collections, memories, temp_files, disk, tasks, running,
          uploads, questions, clears, last, lastOk, cleared, answeredFrom>>

\* ------------------------------------------------------- Python primitives
SetMax(S) == CHOOSE x \in S : \A y \in S : y <= x

SetMin(S) == CHOOSE x \in S : \A y \in S : x <= y

\* A slice index as Python normalises it: negative counts from the end,
\* then clamped into 0..n.
SliceIndex(i, n) ==
    IF i < 0 THEN (IF i + n < 0 THEN 0 ELSE i + n)
    ELSE IF i > n THEN n ELSE i

\* text[start:end]
Slice(text, start, end) ==
    LET lo == SliceIndex(start, Len(text))
        hi == SliceIndex(end, Len(text))
    IN  IF lo >= hi THEN <<>> ELSE SubSeq(text, lo + 1, hi)

IsSpace(c) == c \in {" ", "\n"}

\* str.strip()
Strip(s) ==
    LET keep == {i \in 1..Len(s) : ~IsSpace(s[i])}
    IN  IF keep = {} THEN <<>> ELSE SubSeq(s, SetMin(keep), SetMax(keep))

\* text.rfind(punct, start, end): highest 0-based index of an occurrence
\* lying wholly inside text[start:end], -1 if there is none.
RFind(text, punct, start, end) ==
    LET lo == SliceIndex(start, Len(text))
        hi == SliceIndex(end, Len(text))
        hits == {i \in lo..(hi - Len(punct)) :
                    SubSeq(text, i + 1, i + Len(punct)) = punct}
    IN  IF hits = {} THEN -1 ELSE SetMax(hits)

\* ----------------------------------------------------------------- chunker
\* The delimiters in the order the loop tries them.
Puncts == << <<".", " ">>, <<"!", " ">>, <<"?", " ">>, <<"\n", "\n">>, <<"\n">> >>

\* The end of the chunk that starts at start (lines 164-173).
ChunkEnd(text, start, chunk_size) ==
    LET end == start + chunk_size
        found == {k \in 1..Len(Puncts) : RFind(text, Puncts[k], start, end) # -1}
    IN  IF end < Len(text) /\ found # {}
        THEN LET k == SetMin(found)
             IN  RFind(text, Puncts[k], start, end) + Len(Puncts[k])
        ELSE end

\* AppendChunk without the test of line 177: the empty chunk is kept too.
AppendChunkKeepEmpty(chunks, text, start, end) ==
    Append(chunks, [text |-> Strip(Slice(text, start, end)),
                    lo |-> SliceIndex(start, Len(text)),
                    hi |-> SliceIndex(end, Len(text))])

\* chunks after the iteration at start (lines 176-178); a chunk is kept with
\* the slice bounds it was cut from.
AppendChunk(chunks, text, start, end) ==
    LET chunk == Strip(Slice(text, start, end))
    IN  IF chunk # <<>>
        THEN Append(chunks, [text |-> chunk,
                             lo |-> SliceIndex(start, Len(text)),
                             hi |-> SliceIndex(end, Len(text))])
        ELSE chunks

\* The start of the next window (line 181).
NextStart(end, chunk_overlap) == end - chunk_overlap

\* split_text_into_chunks from the loop test at start (lines 162-185). A
\* window start met twice means the loop never ends (see ChunkDiverge).
RECURSIVE SplitLoop(_, _, _, _, _, _)
SplitLoop(text, chunk_size, chunk_overlap, start, chunks, seen) ==
    IF ~(start < Len(text)) THEN [pc |-> "done", chunks |-> chunks]
    ELSE IF start \in seen THEN [pc |-> "diverged", chunks |-> chunks]
    ELSE LET end == ChunkEnd(text, start, chunk_size)
             next == NextStart(end, chunk_overlap)
             added == AppendChunk(chunks, text, start, end)
         IN  IF next >= Len(text)
             THEN [pc |-> "done", chunks |-> added]
             ELSE SplitLoop(text, chunk_size, chunk_overlap, next, added,
                            seen \cup {start})

split_text_into_chunks(text, chunk_size, chunk_overlap) ==
    SplitLoop(text, chunk_size, chunk_overlap, 0, <<>>, {})

\* ------------------------------------------------------------- dictionaries
\* A Python dict is a function whose domain is its key set.
EmptyDict == [k \in {} |-> 0]

DictSet(d, k, v) == [x \in DOMAIN d \cup {k} |-> IF x = k THEN v ELSE d[x]]

DictDel(d, k) == [x \in DOMAIN d \ {k} |-> d[x]]

\* seq[-n:]
LastN(seq, n) ==
    IF Len(seq) <= n THEN seq ELSE SubSeq(seq, Len(seq) - n + 1, Len(seq))

\* seq[:n]
FirstN(seq, n) == IF Len(seq) <= n THEN seq ELSE SubSeq(seq, 1, n)

\* ------------------------------------------------------------------ uploads
\* The documents users upload. A file name is its stem followed by its
\* extension; content is the text the extractor reads, or unreadable.
Letters(n) == [i \in 1..n |-> "a"]

Documents == <<
    [file_name |-> <<"a", ".txt">>, readable |-> TRUE,  content |-> Letters(60)],
    [file_name |-> <<"a", ".txt">>, readable |-> TRUE,  content |-> Letters(10)],
    [file_name |-> <<"b", ".txt">>, readable |-> TRUE,  content |-> Letters(2500)],
    [file_name |-> <<"c", ".PDF">>, readable |-> FALSE, content |-> <<>>],
    [file_name |-> <<"d", ".exe">>, readable |-> TRUE,  content |-> Letters(60)],
    [file_name |-> <<"e", ".txt">>, readable |-> TRUE,
     content |-> Letters(198) \o <<".", " ">> \o Letters(900)] >>

DocIds == DOMAIN Documents

\* str.lower() on the extensions in use.
Lower(ext) ==
    CASE ext = ".PDF" -> ".pdf"
      [] ext = ".TXT" -> ".txt"
      [] ext = ".DOCX" -> ".docx"
      [] OTHER -> ext

\* os.path.splitext(file_name)[1].lower(), Path(file_path).suffix.lower()
FileExt(name) == Lower(name[Len(name)])

SupportedFormats == {".pdf", ".txt", ".docx"}

\* str(n) for a user id.
RECURSIVE Str(_)
Str(n) ==
    LET digit == <<"0", "1", "2", "3", "4", "5", "6", "7", "8", "9">>[(n % 10) + 1]
    IN  IF n < 10 THEN <<digit>> ELSE Append(Str(n \div 10), digit)

\* f"./temp_{user_id}_{file_name}"
TempPath(user_id, file_name) == <<"./temp_">> \o Str(user_id) \o <<"_">> \o file_name

\* A collection name that leaves the user id out.
CollectionNameShared(user_id) == <<"user_">>

\* f"user_{user_id}"
CollectionName(user_id) == <<"user_">> \o Str(user_id)

\* What the handler computes from an upload's content, per document: the
\* extractor's text is the stripped content (lines 67, 85, 111), of which
\* handle_document takes len(text.strip()) at line 198 and the split at
\* lines 206-210. A text is named by its document from here on.
ExtractedFrom(d) ==
    LET text == Strip(Documents[d].content)
    IN  [empty |-> text = <<>>,
         stripped_len |-> Len(Strip(text)),
         split |-> split_text_into_chunks(text, CHUNK_SIZE, CHUNK_OVERLAP)]

RECURSIVE ExtractedUpTo(_)
ExtractedUpTo(d) == IF d = 0 THEN <<>> ELSE Append(ExtractedUpTo(d - 1), ExtractedFrom(d))

Extracted == ExtractedUpTo(Len(Documents))

\* extract_text(file_path): FileNotFoundError, ValueError, a parser error,
\* or the text of the document stored at file_path.
ExtractText(files, file_path) ==
    IF file_path \notin DOMAIN files THEN [ok |-> FALSE, text |-> 0]
    ELSE IF FileExt(file_path) \notin SupportedFormats THEN [ok |-> FALSE, text |-> 0]
    ELSE IF ~Documents[files[file_path]].readable THEN [ok |-> FALSE, text |-> 0]
    ELSE [ok |-> TRUE, text |-> files[file_path]]

\* ------------------------------------------------------------- vector store
\* The store is the pair of self.client and self.collections; a handle is
\* the name of the collection it was obtained for, and is usable while that
\* collection exists.
Store(cl, co) == [client |-> cl, collections |-> co]

\* get_or_create_collection caching a handle without creating the
\* collection it names.
get_or_create_collection_NoCreate(vs, user_id) ==
    IF user_id \in DOMAIN vs.collections THEN vs
    ELSE Store(vs.client, DictSet(vs.collections, user_id, CollectionName(user_id)))

\* Lines 55-68: the cached handle, or the collection of the user's name,
\* created when the client has none, whose handle is cached.
get_or_create_collection(vs, user_id) ==
    IF user_id \in DOMAIN vs.collections THEN vs
    ELSE LET name == CollectionName(user_id)
         IN  Store(IF name \in DOMAIN vs.client THEN vs.client
                   ELSE DictSet(vs.client, name, <<>>),
                   DictSet(vs.collections, user_id, name))

\* collection.add through the handle of user_id; raises when the handle's
\* collection is gone.
add_documents(vs, user_id, entries) ==
    IF entries = <<>> THEN [ok |-> TRUE, vs |-> vs]
    ELSE LET got == get_or_create_collection(vs, user_id)
             handle == got.collections[user_id]
         IN  IF handle \in DOMAIN got.client
             THEN [ok |-> TRUE,
                   vs |-> Store(DictSet(got.client, handle, got.client[handle] \o entries),
                                got.collections)]
             ELSE [ok |-> FALSE, vs |-> got]

\* clear_memory that leaves the memory as it is.
clear_memory_Noop(mem, user_id) == mem

\* clear_memory, bot.py lines 83-84.
clear_memory(mem, user_id) == DictDel(mem, user_id)

\* clear_user_collection dropping the cached handle only.
clear_user_collection_CacheOnly(vs, user_id) ==
    Store(vs.client, DictDel(vs.collections, user_id))

clear_user_collection(vs, user_id) ==
    LET name == CollectionName(user_id)
    IN  IF name \in DOMAIN vs.client
        THEN Store(DictDel(vs.client, name), DictDel(vs.collections, user_id))
        ELSE vs

\* get_collection_count reporting a collection it had to create as -1.
get_collection_count_Sentinel(vs, user_id) ==
    LET got == get_or_create_collection(vs, user_id)
        handle == got.collections[user_id]
    IN  [vs |-> got,
         count |-> IF CollectionName(user_id) \notin DOMAIN vs.client THEN -1
                   ELSE Len(got.client[handle])]

get_collection_count(vs, user_id) ==
    LET got == get_or_create_collection(vs, user_id)
        handle == got.collections[user_id]
    IN  [vs |-> got,
         count |-> IF handle \in DOMAIN got.client THEN Len(got.client[handle]) ELSE 0]

\* A query that returns every stored entry, whatever n_results.
QueryResultsAll(entries, n_results) == {entries}

\* The entries a query may return: any n_results of the stored entries (all
\* of them when there are fewer), the ranking being the embedding model's.
QueryResults(entries, n_results) ==
    IF Len(entries) <= n_results THEN {entries}
    ELSE {FirstN(entries, n_results), LastN(entries, n_results)}

\* search once the query is embedded (lines 117 and 123-138): the
\* collection is obtained, created if missing, and queried; the formatted
\* list is empty when the query returns no document. It raises when the
\* handle's collection is gone.
search(vs, user_id, n_results) ==
    LET got == get_or_create_collection(vs, user_id)
        handle == got.collections[user_id]
    IN  [vs |-> got,
         raised |-> handle \notin DOMAIN got.client,
         results |-> IF handle \in DOMAIN got.client
                     THEN QueryResults(got.client[handle], n_results) ELSE {}]

\* --------------------------------------------------------------- bot state
\* A task's position and the handler's local variables: the uploaded
\* document, the question, temp_file_path, the document whose text was
\* extracted and search_results.
Idle == [pc |-> "idle", user |-> 0, doc |-> 0, question |-> 0, path |-> <<>>,
         src |-> 0, results |-> <<>>]

\* A handler step: its handler position, its user, the reply it sent, and
\* where it applies the question's trimmed length, the count it read, the
\* search results it obtained, the messages it sent to the model and what
\* /clear found to remove (entries, turns, registered file on disk) or a
\* finished ingest found to forget (turns), and the entries an ingest's
\* clear found in the collection.
NoStep == [op |-> "init", user |-> 0, reply |-> "none", qlen |-> 0, count |-> -1,
           results |-> <<>>, messages |-> <<>>, removed |-> <<>>, before |-> <<>>]

Step(op, user, reply) == [NoStep EXCEPT !.op = op, !.user = user, !.reply = reply]

NoDoc == [source |-> <<>>, n |-> 0]

BotInit ==
    /\ client = EmptyDict
    /\ collections = EmptyDict
    /\ memories = EmptyDict
    /\ temp_files = EmptyDict
    /\ disk = EmptyDict
    /\ tasks = EmptyBag
    /\ running = Idle
    /\ uploads = 0
    /\ questions = [u \in Users |-> 0]
    /\ clears = 0
    /\ last = NoStep
    /\ lastOk = [u \in Users |-> NoDoc]
    /\ cleared = [u \in Users |-> FALSE]
    /\ answeredFrom = [u \in Users |-> <<>>]

ChunkIdle ==
    /\ cText = <<>>
    /\ cSize = CHUNK_SIZE
    /\ cOverlap = CHUNK_OVERLAP
    /\ cStart = 0
    /\ cChunks = <<>>
    /\ cPc = "done"
    /\ cSeen = {}

Init == BotInit /\ ChunkIdle

\* A handler suspended at an await joins the handlers waiting for the loop.
Suspend(bag, k) == bag (+) SetToBag({k})

\* The loop resumes a waiting handler.
Resume(bag, k) == bag (-) SetToBag({k})

Waiting == BagToSet(tasks)

\* An update can be dispatched: the loop is between tasks.
CanDispatch ==
    /\ running = Idle
    /\ BagCardinality(tasks) < MaxTasks

\* The chunks of document src as add_documents stores them for user_id, with
\* the metadata handle_document builds at line 224.
NewEntries(user_id, src, file_name) ==
    [i \in 1..Len(Extracted[src].split.chunks) |->
        [owner |-> user_id,
         document |-> <<src, i - 1>>,
         metadata |-> [source |-> file_name, chunk_index |-> i - 1]]]

\* ---------------------------------------------------------------- /clear
\* clear_command, lines 131-149: no await before the reply.
ClearCommand(u) ==
    /\ CanDispatch
    /\ clears < MaxClears
    /\ LET vs == clear_user_collection(Store(client, collections), u)
       IN  /\ client' = vs.client
           /\ collections' = vs.collections
    /\ memories' = clear_memory(memories, u)
    /\ answeredFrom' = [answeredFrom EXCEPT ![u] = <<>>]
    /\ IF u \in DOMAIN temp_files
       THEN /\ disk' = DictDel(disk, temp_files[u])
            /\ temp_files' = DictDel(temp_files, u)
       ELSE UNCHANGED <<disk, temp_files>>
    /\ clears' = clears + 1
    /\ last' = [Step("clear", u, "cleared") EXCEPT !.removed =
                    <<IF CollectionName(u) \in DOMAIN client
                      THEN Len(client[CollectionName(u)]) ELSE 0,
                      IF u \in DOMAIN memories THEN Len(memories[u]) ELSE 0,
                      u \in DOMAIN temp_files /\ temp_files[u] \in DOMAIN disk>>]
    /\ lastOk' = [lastOk EXCEPT ![u] = NoDoc]
    /\ cleared' = [cleared EXCEPT ![u] = TRUE]
    /\ UNCHANGED <<tasks, running, uploads, questions>>
    /\ UNCHANGED cvars

\* ------------------------------------------------------- handle_document
\* Lines 157-179: the format check and the "processing" reply.
HandleDocumentStart(u, d) ==
    /\ CanDispatch
    /\ uploads < MaxUploads
    /\ IF FileExt(Documents[d].file_name) \notin SupportedFormats
       THEN /\ last' = Step("doc_start", u, "unsupported")
            /\ UNCHANGED tasks
       ELSE /\ last' = Step("doc_start", u, "processing")
            /\ tasks' = Suspend(tasks,
                            [Idle EXCEPT !.pc = "download", !.user = u, !.doc = d,
                                         !.path = TempPath(u, Documents[d].file_name)])
    /\ uploads' = uploads + 1
    /\ cleared' = [cleared EXCEPT ![u] = FALSE]
    /\ UNCHANGED <<client, collections, memories, answeredFrom, temp_files, disk, running,
                   questions, clears, lastOk>>
    /\ UNCHANGED cvars

\* Lines 183-185: get_file and download_to_drive, which writes the upload
\* to temp_file_path or raises.
HandleDocumentDownload(k) ==
    /\ running = Idle
    /\ k.pc = "download"
    /\ \/ /\ disk' = DictSet(disk, k.path, k.doc)
          /\ tasks' = Suspend(Resume(tasks, k), [k EXCEPT !.pc = "register"])
          /\ last' = Step("doc_download", k.user, "none")
       \/ /\ tasks' = Resume(tasks, k)
          /\ last' = Step("doc_download", k.user, "error")
          /\ UNCHANGED disk
    /\ cleared' = [cleared EXCEPT ![k.user] = FALSE]
    /\ UNCHANGED <<client, collections, memories, answeredFrom, temp_files, running, uploads, questions, clears, lastOk>>
    /\ UNCHANGED cvars

\* HandleDocumentRegister that leaves the previous upload's file on disk.
HandleDocumentRegisterKeepsOld(k) ==
    /\ running = Idle
    /\ k.pc = "register"
    /\ temp_files' = DictSet(temp_files, k.user, k.path)
    /\ last' = Step("doc_register", k.user, "none")
    /\ cleared' = [cleared EXCEPT ![k.user] = FALSE]
    /\ tasks' = Resume(tasks, k)
    /\ running' = [k EXCEPT !.pc = "extract"]
    /\ UNCHANGED <<client, collections, memories, answeredFrom, disk, uploads, questions, clears, lastOk>>
    /\ UNCHANGED cvars

\* Lines 188-192: the previous upload's file is removed and the new path
\* registered. The handler resumes here after the download and runs without
\* awaiting until its final reply.
HandleDocumentRegister(k) ==
    /\ running = Idle
    /\ k.pc = "register"
    /\ LET u == k.user
       IN  /\ disk' = IF u \in DOMAIN temp_files THEN DictDel(disk, temp_files[u]) ELSE disk
           /\ temp_files' = DictSet(temp_files, u, k.path)
           /\ last' = Step("doc_register", u, "none")
           /\ cleared' = [cleared EXCEPT ![u] = FALSE]
    /\ tasks' = Resume(tasks, k)
    /\ running' = [k EXCEPT !.pc = "extract"]
    /\ UNCHANGED <<client, collections, memories, answeredFrom, uploads, questions, clears, lastOk>>
    /\ UNCHANGED cvars

\* HandleDocumentExtract with the collection cleared before the text is
\* checked.
HandleDocumentExtractClearsFirst ==
    /\ running.pc = "extract"
    /\ LET vs == clear_user_collection(Store(client, collections), running.user)
       IN  /\ client' = vs.client
           /\ collections' = vs.collections
    /\ running' = Idle
    /\ last' = Step("doc_extract", running.user, "too_short")
    /\ UNCHANGED <<memories, answeredFrom, temp_files, disk, tasks, uploads, questions, clears, lastOk, cleared>>
    /\ UNCHANGED cvars

\* Lines 196-214: extraction, the minimum length and the split.
HandleDocumentExtract ==
    /\ running.pc = "extract"
    /\ LET u == running.user
           got == ExtractText(disk, running.path)
           src == got.text
       IN  /\ cleared' = [cleared EXCEPT ![u] = FALSE]
           /\ IF ~got.ok
              THEN /\ running' = Idle
                   /\ last' = Step("doc_extract", u, "error")
              ELSE IF Extracted[src].empty \/ Extracted[src].stripped_len < MinTextLen
              THEN /\ running' = Idle
                   /\ last' = Step("doc_extract", u, "too_short")
              ELSE IF Extracted[src].split.pc = "diverged"
              THEN /\ running' = [running EXCEPT !.pc = "hung"]
                   /\ last' = Step("doc_extract", u, "none")
              ELSE IF Extracted[src].split.chunks = <<>>
              THEN /\ running' = Idle
                   /\ last' = Step("doc_extract", u, "no_chunks")
              ELSE /\ running' = [running EXCEPT !.pc = "clear", !.src = src]
                   /\ last' = Step("doc_extract", u, "none")
    /\ UNCHANGED <<client, collections, memories, answeredFrom, temp_files, disk, tasks, uploads, questions, clears, lastOk>>
    /\ UNCHANGED cvars

\* HandleDocumentClear giving the loop back, as if line 217 were awaited.
HandleDocumentClearYields ==
    /\ running.pc = "clear"
    /\ LET vs == clear_user_collection(Store(client, collections), running.user)
       IN  /\ client' = vs.client
           /\ collections' = vs.collections
    /\ tasks' = Suspend(tasks, [running EXCEPT !.pc = "add"])
    /\ running' = Idle
    /\ last' = [Step("doc_clear", running.user, "none") EXCEPT !.before =
                    IF CollectionName(running.user) \in DOMAIN client
                    THEN client[CollectionName(running.user)] ELSE <<>>]
    /\ UNCHANGED <<memories, answeredFrom, temp_files, disk, uploads, questions, clears, lastOk, cleared>>
    /\ UNCHANGED cvars

\* Line 217: the user's old collection is cleared.
HandleDocumentClear ==
    /\ running.pc = "clear"
    /\ LET vs == clear_user_collection(Store(client, collections), running.user)
       IN  /\ client' = vs.client
           /\ collections' = vs.collections
    /\ running' = [running EXCEPT !.pc = "add"]
    /\ last' = [Step("doc_clear", running.user, "none") EXCEPT !.before =
                    IF CollectionName(running.user) \in DOMAIN client
                    THEN client[CollectionName(running.user)] ELSE <<>>]
    /\ UNCHANGED <<memories, answeredFrom, temp_files, disk, tasks, uploads, questions, clears, lastOk, cleared>>
    /\ UNCHANGED cvars

\* HandleDocumentAdd ending the ingest once the chunks are stored, the
\* conversation memory left as it is.
HandleDocumentAddKeepsMemory ==
    /\ running.pc = "add"
    /\ LET u == running.user
           entries == NewEntries(u, running.src, Documents[running.doc].file_name)
           added == add_documents(Store(client, collections), u, entries)
           failed == get_or_create_collection(Store(client, collections), u)
       IN  \/ /\ added.ok
              /\ client' = added.vs.client
              /\ collections' = added.vs.collections
              /\ running' = Idle
              /\ last' = Step("doc_add", u, "success")
              /\ lastOk' = [lastOk EXCEPT ![u] =
                               [source |-> Documents[running.doc].file_name,
                                n |-> Len(entries)]]
           \/ /\ client' = failed.client
              /\ collections' = failed.collections
              /\ running' = Idle
              /\ last' = Step("doc_add", u, "error")
              /\ UNCHANGED lastOk
    /\ UNCHANGED <<memories, answeredFrom, temp_files, disk, tasks, uploads, questions, clears, cleared>>
    /\ UNCHANGED cvars

\* Lines 221-225: add_documents stores the chunks, or the embedding model or
\* the collection raises after the collection was obtained at line 82.
HandleDocumentAdd ==
    /\ running.pc = "add"
    /\ LET u == running.user
           entries == NewEntries(u, running.src, Documents[running.doc].file_name)
           added == add_documents(Store(client, collections), u, entries)
           failed == get_or_create_collection(Store(client, collections), u)
       IN  \/ /\ added.ok
              /\ client' = added.vs.client
              /\ collections' = added.vs.collections
              /\ running' = [running EXCEPT !.pc = "clear_memory"]
              /\ last' = Step("doc_add", u, "none")
              /\ lastOk' = [lastOk EXCEPT ![u] =
                               [source |-> Documents[running.doc].file_name,
                                n |-> Len(entries)]]
           \/ /\ client' = failed.client
              /\ collections' = failed.collections
              /\ running' = Idle
              /\ last' = Step("doc_add", u, "error")
              /\ UNCHANGED lastOk
    /\ UNCHANGED <<memories, answeredFrom, temp_files, disk, tasks, uploads, questions, clears, cleared>>
    /\ UNCHANGED cvars

\* HandleDocumentClearMemory without the call of line 228.
HandleDocumentClearMemorySkips ==
    /\ running.pc = "clear_memory"
    /\ running' = Idle
    /\ last' = [Step("doc_done", running.user, "success") EXCEPT !.removed =
                    <<IF running.user \in DOMAIN memories
                      THEN Len(memories[running.user]) ELSE 0>>]
    /\ UNCHANGED <<client, collections, memories, answeredFrom, temp_files, disk, tasks, uploads,
                   questions, clears, lastOk, cleared>>
    /\ UNCHANGED cvars

\* Lines 228-236: the memory is cleared and success reported.
HandleDocumentClearMemory ==
    /\ running.pc = "clear_memory"
    /\ memories' = clear_memory(memories, running.user)
    /\ answeredFrom' = [answeredFrom EXCEPT ![running.user] = <<>>]
    /\ running' = Idle
    /\ last' = [Step("doc_done", running.user, "success") EXCEPT !.removed =
                    <<IF running.user \in DOMAIN memories
                      THEN Len(memories[running.user]) ELSE 0>>]
    /\ UNCHANGED <<client, collections, temp_files, disk, tasks, uploads, questions, clears, lastOk, cleared>>
    /\ UNCHANGED cvars

\* -------------------------------------------------------- handle_message
RECURSIVE SumOver(_, _)
SumOver(f, S) ==
    IF S = {} THEN 0
    ELSE LET x == CHOOSE y \in S : TRUE IN f[x] + SumOver(f, S \ {x})

\* Text updates dispatched so far.
Asked == SumOver(questions, Users)

\* Trimmed lengths of the questions users send.
QuestionLens == {2, 3}

HumanMessage(content) == [role |-> "user", content |-> content]

AIMessage(content) == [role |-> "assistant", content |-> content]

SystemMessage(content) == [role |-> "system", content |-> content]

\* get_memory: the user's list, created empty on first use.
get_memory(mem, user_id) ==
    IF user_id \in DOMAIN mem THEN mem ELSE DictSet(mem, user_id, <<>>)

\* BuildMessages sending the whole memory.
BuildMessagesWholeHistory(search_results, chat_history, question) ==
    <<SystemMessage(search_results)>> \o chat_history \o <<HumanMessage(question)>>

\* Lines 303-320: the messages sent to the model.
BuildMessages(search_results, chat_history, question) ==
    <<SystemMessage(search_results)>> \o LastN(chat_history, HistoryWindow)
        \o <<HumanMessage(question)>>

\* The documents the retrieved chunks were cut from (the first component of
\* an entry's text).
ContextDocuments(search_results) ==
    {search_results[i].document[1] : i \in 1..Len(search_results)}

\* Remember with the cut taken from the wrong end of the list.
RememberKeepOldest(chat_history, question) ==
    LET appended == chat_history \o <<HumanMessage(question), AIMessage(question)>>
    IN  IF Len(appended) > MemoryCap THEN FirstN(appended, MemoryCap) ELSE appended

\* Remember cutting the list to one turn fewer than MemoryCap.
RememberCutsOdd(chat_history, question) ==
    LET appended == chat_history \o <<HumanMessage(question), AIMessage(question)>>
    IN  IF Len(appended) > MemoryCap THEN LastN(appended, MemoryCap - 1) ELSE appended

\* Lines 328-334: the question and the answer are appended and the list cut
\* to its last MemoryCap turns.
Remember(chat_history, question) ==
    LET appended == chat_history \o <<HumanMessage(question), AIMessage(question)>>
    IN  IF Len(appended) > MemoryCap THEN LastN(appended, MemoryCap) ELSE appended

\* HandleMessageStart reading the count before it looks at the length.
HandleMessageStartCountsFirst(u, qlen) ==
    /\ CanDispatch
    /\ Asked < MaxQuestions
    /\ questions' = [questions EXCEPT ![u] = @ + 1]
    /\ LET counted == get_collection_count(Store(client, collections), u)
       IN  /\ client' = counted.vs.client
           /\ collections' = counted.vs.collections
           /\ IF qlen < MinQuestionLen
              THEN /\ last' = [Step("msg_start", u, "retry") EXCEPT !.qlen = qlen]
                   /\ UNCHANGED tasks
              ELSE IF counted.count = 0
              THEN /\ last' = [Step("msg_start", u, "upload_first")
                                   EXCEPT !.qlen = qlen, !.count = counted.count]
                   /\ UNCHANGED tasks
              ELSE /\ last' = [Step("msg_start", u, "thinking")
                                   EXCEPT !.qlen = qlen, !.count = counted.count]
                   /\ tasks' = Suspend(tasks,
                                   [Idle EXCEPT !.pc = "search", !.user = u,
                                                !.question = questions[u] + 1])
    /\ UNCHANGED <<memories, answeredFrom, temp_files, disk, running, uploads, clears, lastOk, cleared>>
    /\ UNCHANGED cvars

\* Lines 251-270: the question's length, then the count of the collection.
\* A question is identified by its number among its user's questions.
HandleMessageStart(u, qlen) ==
    /\ CanDispatch
    /\ Asked < MaxQuestions
    /\ questions' = [questions EXCEPT ![u] = @ + 1]
    /\ IF qlen < MinQuestionLen
       THEN /\ last' = [Step("msg_start", u, "retry") EXCEPT !.qlen = qlen]
            /\ UNCHANGED <<client, collections, tasks>>
       ELSE LET counted == get_collection_count(Store(client, collections), u)
            IN  /\ client' = counted.vs.client
                /\ collections' = counted.vs.collections
                /\ IF counted.count = 0
                   THEN /\ last' = [Step("msg_start", u, "upload_first")
                                        EXCEPT !.qlen = qlen, !.count = counted.count]
                        /\ UNCHANGED tasks
                   ELSE /\ last' = [Step("msg_start", u, "thinking")
                                        EXCEPT !.qlen = qlen, !.count = counted.count]
                        /\ tasks' = Suspend(tasks,
                                        [Idle EXCEPT !.pc = "search", !.user = u,
                                                     !.question = questions[u] + 1])
    /\ UNCHANGED <<memories, answeredFrom, temp_files, disk, running, uploads, clears, lastOk, cleared>>
    /\ UNCHANGED cvars

\* HandleMessageSearch without the test of line 277: the handler goes on to
\* the completion with whatever the search returned.
HandleMessageSearchNoEmptyCheck(k) ==
    /\ running = Idle
    /\ k.pc = "search"
    /\ LET u == k.user
           searched == search(Store(client, collections), u, NResults)
       IN  /\ client' = searched.vs.client
           /\ collections' = searched.vs.collections
           /\ \/ /\ ~searched.raised
                 /\ \E found \in searched.results :
                       /\ running' = [k EXCEPT !.pc = "generate", !.results = found]
                       /\ last' = [Step("msg_search", u, "none") EXCEPT !.results = found]
              \/ /\ running' = Idle
                 /\ last' = Step("msg_search", u, "error")
    /\ tasks' = Resume(tasks, k)
    /\ UNCHANGED <<memories, answeredFrom, temp_files, disk, uploads, questions, clears, lastOk, cleared>>
    /\ UNCHANGED cvars

\* Lines 275-282: the search, which obtains the collection, embeds the query
\* (which may raise) and queries the collection.
HandleMessageSearch(k) ==
    /\ running = Idle
    /\ k.pc = "search"
    /\ LET u == k.user
           searched == search(Store(client, collections), u, NResults)
       IN  /\ client' = searched.vs.client
           /\ collections' = searched.vs.collections
           /\ \/ /\ ~searched.raised
                 /\ \E found \in searched.results :
                       IF found = <<>>
                       THEN /\ running' = Idle
                            /\ last' = Step("msg_search", u, "not_found")
                       ELSE /\ running' = [k EXCEPT !.pc = "generate",
                                                    !.results = found]
                            /\ last' = [Step("msg_search", u, "none")
                                            EXCEPT !.results = found]
              \/ /\ running' = Idle
                 /\ last' = Step("msg_search", u, "error")
    /\ tasks' = Resume(tasks, k)
    /\ UNCHANGED <<memories, answeredFrom, temp_files, disk, uploads, questions, clears, lastOk, cleared>>
    /\ UNCHANGED cvars

\* HandleMessageGenerate storing the question before the completion is
\* requested, so that a failed completion leaves it in the memory.
HandleMessageGenerateRemembersFirst ==
    /\ running.pc = "generate"
    /\ LET u == running.user
           mem == get_memory(memories, u)
           messages == BuildMessages(running.results, mem[u], running.question)
           from == ContextDocuments(running.results)
       IN  \/ /\ memories' = DictSet(mem, u, Remember(mem[u], running.question))
              /\ answeredFrom' = [answeredFrom EXCEPT ![u] =
                                      LastN(@ \o <<from, from>>, MemoryCap)]
              /\ last' = [Step("msg_generate", u, "answer") EXCEPT !.messages = messages]
           \/ /\ memories' = DictSet(mem, u, Append(mem[u], HumanMessage(running.question)))
              /\ answeredFrom' = [answeredFrom EXCEPT ![u] = Append(@, from)]
              /\ last' = [Step("msg_generate", u, "error") EXCEPT !.messages = messages]
    /\ running' = Idle
    /\ UNCHANGED <<client, collections, temp_files, disk, tasks, uploads, questions, clears, lastOk, cleared>>
    /\ UNCHANGED cvars

\* Lines 285-345: the prompt, the completion (which may raise) and the
\* memory update.
HandleMessageGenerate ==
    /\ running.pc = "generate"
    /\ LET u == running.user
           mem == get_memory(memories, u)
           messages == BuildMessages(running.results, mem[u], running.question)
           from == ContextDocuments(running.results)
       IN  \/ /\ memories' = DictSet(mem, u, Remember(mem[u], running.question))
              /\ answeredFrom' = [answeredFrom EXCEPT ![u] =
                                      LastN(@ \o <<from, from>>, MemoryCap)]
              /\ last' = [Step("msg_generate", u, "answer") EXCEPT !.messages = messages]
           \/ /\ memories' = mem
              /\ UNCHANGED answeredFrom
              /\ last' = [Step("msg_generate", u, "error") EXCEPT !.messages = messages]
    /\ running' = Idle
    /\ UNCHANGED <<client, collections, temp_files, disk, tasks, uploads, questions, clears, lastOk, cleared>>
    /\ UNCHANGED cvars

\* A step of a handler in flight: the loop resumes one of the waiting
\* handlers, or the handler that holds the loop runs on.
TaskStep ==
    \/ \E k \in Waiting : HandleDocumentDownload(k)
    \/ \E k \in Waiting : HandleDocumentRegister(k)
    \/ HandleDocumentExtract
    \/ HandleDocumentClear
    \/ HandleDocumentAdd
    \/ HandleDocumentClearMemory
    \/ \E k \in Waiting : HandleMessageSearch(k)
    \/ HandleMessageGenerate

\* Concurrent delivery (main.py line 67): an update of any user is
\* dispatched whenever the loop is between tasks, also while handlers of the
\* same or another user are suspended.
Few == uploads + clears + Asked < MaxEvents

\* The uploads on whose text split_text_into_chunks returns. An upload on
\* which it does not return ends every behaviour at its extraction, the
\* handler holding the event loop for ever; FairSpec delivers those too.
Returns == {d \in DocIds : Extracted[d].split.pc = "done"}

Next ==
    \/ \E u \in Users : Few /\ ClearCommand(u)
    \/ \E u \in Users, d \in Returns : Few /\ HandleDocumentStart(u, d)
    \/ \E u \in Users, qlen \in QuestionLens : Few /\ HandleMessageStart(u, qlen)
    \/ TaskStep

Spec == Init /\ [][Next]_vars

\* Concurrent delivery of every upload, those on which the chunker does not
\* return included.
FairNext ==
    \/ Next
    \/ \E u \in Users, d \in DocIds \ Returns : Few /\ HandleDocumentStart(u, d)

\* The event loop runs a ready task: a handler whose await has returned is
\* resumed, and the handler that holds the loop runs on to its next await
\* or to its end.
FairSpec == Init /\ [][FairNext]_vars /\ WF_vars(TaskStep)

\* Sequential delivery: one user whose updates are dispatched one at a time,
\* each after the handler of the one before has finished; runs are long
\* enough to fill the conversation memory.
Serial == running = Idle /\ tasks = EmptyBag

SeqUser == 1

SeqNext ==
    \/ Serial /\ ClearCommand(SeqUser)
    \/ \E d \in Returns : Serial /\ HandleDocumentStart(SeqUser, d)
    \/ \E qlen \in QuestionLens : Serial /\ HandleMessageStart(SeqUser, qlen)
    \/ TaskStep

SeqSpec == Init /\ [][SeqNext]_vars

\* ------------------------------------------------ the chunker on its own
Texts == UNION {[1..n -> Chars] : n \in 0..MaxTextLen}

ChunkInit ==
    /\ cText \in Texts
    /\ cSize \in 1..MaxChunkSize
    /\ cOverlap \in 0..(cSize - 1)
    /\ cStart = 0
    /\ cChunks = <<>>
    /\ cPc = "while"
    /\ cSeen = {}
    /\ BotInit

\* One iteration of the while loop.
ChunkIter ==
    /\ cPc = "while"
    /\ cStart < Len(cText)
    /\ cStart \notin cSeen
    /\ LET end == ChunkEnd(cText, cStart, cSize)
           next == NextStart(end, cOverlap)
       IN  /\ cChunks' = AppendChunk(cChunks, cText, cStart, end)
           /\ cStart' = next
           /\ cPc' = IF next >= Len(cText) THEN "done" ELSE "while"
    /\ cSeen' = cSeen \cup {cStart}
    /\ UNCHANGED <<cText, cSize, cOverlap>>
    /\ UNCHANGED bvars

\* The loop test fails without an iteration: the text is empty.
ChunkReturnEmpty ==
    /\ cPc = "while"
    /\ ~(cStart < Len(cText))
    /\ cPc' = "done"
    /\ UNCHANGED <<cText, cSize, cOverlap, cStart, cChunks, cSeen>>
    /\ UNCHANGED bvars

\* The loop is back at a window start it has already run from. An iteration
\* is a function of start alone, so from here the loop repeats for ever,
\* appending the same chunks again: the call never returns.
ChunkDiverge ==
    /\ cPc = "while"
    /\ cStart < Len(cText)
    /\ cStart \in cSeen
    /\ cPc' = "diverged"
    /\ UNCHANGED <<cText, cSize, cOverlap, cStart, cChunks, cSeen>>
    /\ UNCHANGED bvars

ChunkNext == ChunkIter \/ ChunkReturnEmpty \/ ChunkDiverge

ChunkSpec == ChunkInit /\ [][ChunkNext]_vars

\* ================================================================= claims
\* The entries stored for a user, none when the collection does not exist.
Stored(u) ==
    IF CollectionName(u) \in DOMAIN client THEN client[CollectionName(u)] ELSE <<>>

\* The list remembered for a user, empty when there is none.
Remembered(u) == IF u \in DOMAIN memories THEN memories[u] ELSE <<>>

\* C1: between handler steps, the collection of every user holds exactly
\* the chunks of the user's most recent successful ingest since the last
\* /clear (source = its file name, chunk_index = 0..n-1, each once), and
\* nothing when there has been none.
C1_ReplaceSemantics ==
    running = Idle =>
        \A u \in Users :
            /\ Len(Stored(u)) = lastOk[u].n
            /\ \A i \in 1..Len(Stored(u)) :
                  Stored(u)[i].metadata =
                      [source |-> lastOk[u].source, chunk_index |-> i - 1]

\* C2: split_text_into_chunks terminates on every text for every
\* 0 <= chunk_overlap < chunk_size: the loop never comes back to a window
\* start it has already run from.
C2_ChunkerTerminates == cPc # "diverged"

\* C3: the memory of a user never holds more than MemoryCap turns, and a
\* completed answer leaves the last MemoryCap turns of the old memory
\* followed by the question and the answer, in that order.
C3_MemoryCap ==
    /\ [](\A u \in DOMAIN memories : Len(memories[u]) <= MemoryCap)
    /\ [][(last'.op = "msg_generate" /\ last'.reply = "answer") =>
            LET u == last'.user
                q == running.question
                full == Remembered(u) \o <<HumanMessage(q), AIMessage(q)>>
            IN  /\ u \in DOMAIN memories'
                /\ memories'[u] = LastN(full, MemoryCap)]_vars

\* Six answers to a fresh user: turns 3..12 remain.
C3_Witness ==
    /\ SeqUser \in DOMAIN memories
    /\ memories[SeqUser] =
          [i \in 1..10 |-> IF i % 2 = 1 THEN HumanMessage((i + 1) \div 2 + 1)
                           ELSE AIMessage(i \div 2 + 1)]
    /\ last.reply = "answer"
    /\ last.messages[Len(last.messages)] = HumanMessage(6)

\* C4: no step of an ingest up to and including the length and chunk checks
\* changes the collection or the memory, so an ingest that ends with "too
\* short" leaves both as they were; the collection is cleared only for a
\* text of at least MinTextLen characters that split into at least one chunk.
C4_FailedIngestKeepsState ==
    /\ [][last'.op \in {"doc_start", "doc_download", "doc_register", "doc_extract"} =>
            /\ client' = client
            /\ collections' = collections
            /\ memories' = memories]_vars
    /\ [][last'.op = "doc_clear" =>
            /\ Extracted[running.src].stripped_len >= MinTextLen
            /\ Extracted[running.src].split.chunks # <<>>]_vars

\* A too-short upload by a user who has an indexed document and a memory.
C4_Witness ==
    /\ last.op = "doc_extract"
    /\ last.reply = "too_short"
    /\ Stored(last.user) # <<>>
    /\ Remembered(last.user) # <<>>

\* C5: a question of valid length asked while the user's collection holds
\* no entry is answered with "upload a document first"; the handler ends
\* there (no search, no completion) and the memory is unchanged.
C5_NoCompletionWithoutDocuments ==
    [][(last'.op = "msg_start" /\ last'.qlen >= MinQuestionLen
            /\ Len(Stored(last'.user)) = 0) =>
        /\ last'.reply = "upload_first"
        /\ last'.count = 0
        /\ last'.results = <<>>
        /\ last'.messages = <<>>
        /\ tasks' = tasks
        /\ running' = running
        /\ memories' = memories]_vars

\* The question of a user whose memory is not empty and whose collection is.
C5_Witness ==
    /\ last.op = "msg_start"
    /\ last.reply = "upload_first"
    /\ Remembered(last.user) # <<>>

\* C6 as claimed: after /clear for a user, with no ingest step of that user
\* since, a question of that user is answered with "upload a document
\* first", whatever the question.
C6_ClearThenAnyQuestion ==
    [][(last'.op = "msg_start" /\ cleared[last'.user]) =>
        last'.reply = "upload_first"]_vars

\* C6 amended: the same for every question of at least MinQuestionLen
\* characters after trimming.
C6_ClearThenQuestion ==
    [][(last'.op = "msg_start" /\ cleared[last'.user]
            /\ last'.qlen >= MinQuestionLen) =>
        last'.reply = "upload_first"]_vars

\* A question asked after a /clear that followed an upload.
C6_Witness ==
    /\ last.op = "msg_start"
    /\ last.qlen >= MinQuestionLen
    /\ last.reply = "upload_first"
    /\ cleared[last.user]
    /\ uploads > 0

\* What belongs to a user: the collection and its cached handle, the
\* memory, the registered upload and the file registered.
Owned(v) ==
    [collection |-> IF CollectionName(v) \in DOMAIN client
                    THEN <<client[CollectionName(v)]>> ELSE <<>>,
     handle |-> IF v \in DOMAIN collections THEN <<collections[v]>> ELSE <<>>,
     memory |-> IF v \in DOMAIN memories THEN <<memories[v]>> ELSE <<>>,
     temp_file |-> IF v \in DOMAIN temp_files THEN <<temp_files[v]>> ELSE <<>>,
     file |-> IF v \in DOMAIN temp_files /\ temp_files[v] \in DOMAIN disk
              THEN <<disk[temp_files[v]]>> ELSE <<>>]

\* C7: a handler step for one user leaves what belongs to every other user
\* unchanged, and a search returns only entries added for its user.
C7_CrossUserIsolation ==
    [][/\ \A v \in Users \ {last'.user} : Owned(v)' = Owned(v)
       /\ \A i \in 1..Len(last'.results) : last'.results[i].owner = last'.user]_vars

\* One user clears, finishes an ingest or gets search results while the
\* other has an indexed document, a memory and a registered file on disk.
C7_Witness ==
    /\ last.op \in {"clear", "doc_done", "msg_search"}
    /\ \E v \in Users \ {last.user} :
          /\ Owned(v).collection # <<>>
          /\ Owned(v).collection[1] # <<>>
          /\ Owned(v).memory # <<>>
          /\ Owned(v).memory[1] # <<>>
          /\ Owned(v).file # <<>>

\* C8: the step after an ingest's clear is the same ingest's add, and no
\* handler is ever suspended between its clear and its add: no other
\* handler step of any user runs on the cleared collection.
C8_NoTornClearThenAdd ==
    /\ [](\A k \in Waiting : k.pc # "add")
    /\ [][last.op = "doc_clear" =>
            /\ running.pc = "add"
            /\ last'.op = "doc_add"
            /\ last'.user = last.user]_vars

\* An ingest between its clear and its add while another handler of the
\* same user is in flight.
C8_Witness ==
    /\ last.op = "doc_clear"
    /\ running.pc = "add"
    /\ \E k \in Waiting : k.user = running.user

\* C9: when the chunker returns, every non-whitespace position of the text
\* lies in the slice of at least one returned chunk.
C9_ChunksCoverText ==
    cPc = "done" =>
        \A i \in 0..(Len(cText) - 1) :
            ~IsSpace(cText[i + 1]) =>
                \E k \in 1..Len(cChunks) : cChunks[k].lo <= i /\ i < cChunks[k].hi

\* C10: the window start never moves backwards and is never negative.
C10_StartMonotone == [][cStart' >= cStart /\ cStart' >= 0]_vars

\* The cuts after the delimiters that lie wholly inside the window
\* [start, end) of text: for a delimiter at 0-based position p, p + its length.
DelimiterEnds(text, start, end) ==
    {p + Len(Puncts[k]) : <<k, p>> \in
        {kp \in (1..Len(Puncts)) \X (0..Len(text)) :
            /\ kp[2] >= start
            /\ kp[2] + Len(Puncts[kp[1]]) <= end
            /\ kp[2] + Len(Puncts[kp[1]]) <= Len(text)
            /\ SubSeq(text, kp[2] + 1, kp[2] + Len(Puncts[kp[1]])) = Puncts[kp[1]]}}

\* C11: an iteration whose window [start, start + chunk_size) does not reach
\* the end of the text cuts immediately after the rightmost delimiter lying
\* wholly inside the window, and at start + chunk_size when the window holds
\* no delimiter.
C11_BoundaryLaw ==
    [][(cPc = "while" /\ cStart < Len(cText) /\ cStart \notin cSeen
            /\ cStart + cSize < Len(cText)) =>
        LET ends == DelimiterEnds(cText, cStart, cStart + cSize)
            cut == cStart' + cOverlap
        IN  cut = IF ends = {} THEN cStart + cSize ELSE SetMax(ends)]_vars

\* C12: every chunk collected is non-empty, carries no leading or trailing
\* whitespace and is at most chunk_size characters long; the empty text
\* returns the empty list.
C12_ChunkBounds ==
    /\ \A k \in 1..Len(cChunks) :
          /\ cChunks[k].text # <<>>
          /\ Strip(cChunks[k].text) = cChunks[k].text
          /\ Len(cChunks[k].text) <= cSize
    /\ (cText = <<>> /\ cPc = "done") => cChunks = <<>>

\* A returned list of several chunks, one of full length and one that lost
\* whitespace to the trim.
C12_Witness ==
    /\ cPc = "done"
    /\ Len(cChunks) >= 2
    /\ \E k \in 1..Len(cChunks) : Len(cChunks[k].text) = cSize
    /\ \E k \in 1..Len(cChunks) : Len(cChunks[k].text) < cChunks[k].hi - cChunks[k].lo

\* C13: /clear leaves its user with a count of 0, no memory, no
\* registered upload and the file that was registered gone from the disk,
\* and replies with the confirmation whatever the user had before, nothing
\* included.
C13_ClearPostcondition ==
    [][\A u \in Users : (last'.op = "clear" /\ last'.user = u) =>
            /\ get_collection_count(Store(client', collections'), u).count = 0
            /\ Stored(u)' = <<>>
            /\ Remembered(u)' = <<>>
            /\ u \notin DOMAIN temp_files'
            /\ u \in DOMAIN temp_files => temp_files[u] \notin DOMAIN disk'
            /\ last'.reply = "cleared"]_vars

\* A /clear that removed entries, turns and a registered file.
C13_Witness ==
    /\ last.op = "clear"
    /\ last.removed[1] > 0
    /\ last.removed[2] > 0
    /\ last.removed[3]

\* C14: a question shorter than MinQuestionLen after trimming gets the
\* retry prompt; the count is not read, no search or completion is started,
\* and the store and the memories are left as they were.
C14_ShortQuestionRejected ==
    [][(last'.op = "msg_start" /\ last'.qlen < MinQuestionLen) =>
        /\ last'.reply = "retry"
        /\ last'.count = NoStep.count
        /\ last'.results = <<>>
        /\ last'.messages = <<>>
        /\ client' = client
        /\ collections' = collections
        /\ memories' = memories
        /\ tasks' = tasks
        /\ running' = running]_vars

\* A short question of a user for whom no collection exists yet, while
\* another user has one.
C14_Witness ==
    /\ last.op = "msg_start"
    /\ last.reply = "retry"
    /\ last.qlen < MinQuestionLen
    /\ CollectionName(last.user) \notin DOMAIN client
    /\ client # EmptyDict

\* The uploads of a user that exist on disk.
FilesOf(u) ==
    {p \in DOMAIN disk : \E d \in DocIds : p = TempPath(u, Documents[d].file_name)}

\* A handler of the user is in flight.
InFlight(u) == running.user = u \/ \E k \in Waiting : k.user = u

\* C15: once the handlers of a user have finished, the only upload of the
\* user that can exist on disk is the one registered in temp_files, and
\* registering an upload removes the file registered before it.
C15_TempFileOwnership ==
    /\ [](\A u \in Users : ~InFlight(u) =>
            FilesOf(u) \subseteq (IF u \in DOMAIN temp_files THEN {temp_files[u]} ELSE {}))
    /\ [][\A u \in Users :
            (last'.op = "doc_register" /\ last'.user = u /\ u \in DOMAIN temp_files) =>
                temp_files[u] \notin DOMAIN disk']_vars

\* An ingest that failed at extraction after a successful ingest of another
\* file: the failed upload is the registered one and the only one on disk.
C15_Witness ==
    /\ last.op = "doc_extract"
    /\ last.reply = "error"
    /\ ~InFlight(last.user)
    /\ Stored(last.user) # <<>>
    /\ last.user \in DOMAIN temp_files
    /\ FilesOf(last.user) = {temp_files[last.user]}

\* C16: a successful ingest leaves its user without remembered turns; the
\* memory of a user changes only by an answer, a /clear or a successful
\* ingest of that user; and a completion requested while the memory is empty
\* is sent the system message and the question only. So the first answer
\* after a successful ingest is sent no turn from before it.
C16_IngestResetsMemory ==
    [][\A u \in Users :
        /\ (last'.op = "doc_done" /\ last'.user = u) => Remembered(u)' = <<>>
        /\ Remembered(u)' # Remembered(u) =>
              /\ last'.user = u
              /\ \/ last'.op \in {"clear", "doc_done"}
                 \/ last'.op = "msg_generate" /\ last'.reply = "answer"
        /\ (last'.op = "msg_generate" /\ last'.user = u /\ Remembered(u) = <<>>) =>
              Len(last'.messages) = 2]_vars

\* A successful ingest of a user who had turns remembered.
C16_Witness ==
    /\ last.op = "doc_done"
    /\ last.reply = "success"
    /\ last.removed[1] > 0
    /\ Remembered(last.user) = <<>>

Min(a, b) == IF a <= b THEN a ELSE b

\* C17: in every state and for every user, a search that gets its query
\* embedded returns without raising, each possible result has
\* min(n_results, count) entries (none for a missing or empty collection),
\* and the count read after clear_user_collection is 0.
C17_QuerySize ==
    \A u \in Users :
        LET vs == Store(client, collections)
            searched == search(vs, u, NResults)
        IN  /\ ~searched.raised
            /\ searched.results # {}
            /\ \A found \in searched.results :
                  Len(found) = Min(NResults, get_collection_count(vs, u).count)
            /\ Len(Stored(u)) = 0 => searched.results = {<<>>}
            /\ get_collection_count(clear_user_collection(vs, u), u).count = 0

\* A search returned NResults of a larger collection while another user has
\* no collection.
C17_Witness ==
    /\ last.op = "msg_search"
    /\ Len(last.results) = NResults
    /\ Len(Stored(last.user)) > NResults
    /\ \E v \in Users : CollectionName(v) \notin DOMAIN client

\* C18: when the extraction of a readable upload of at least MinTextLen
\* characters starts, the path registered for its user is the upload's and
\* the file is on disk, whatever the user uploaded before.
C18_ReuploadFileExists ==
    (/\ running.pc = "extract"
     /\ Documents[running.doc].readable
     /\ Extracted[running.doc].stripped_len >= MinTextLen) =>
        /\ running.user \in DOMAIN temp_files
        /\ temp_files[running.user] = running.path
        /\ running.path \in DOMAIN disk

\* C19: a search that returns no entry ends its handler with "not found":
\* the memories are unchanged and no completion follows; and every
\* completion is requested with a non-empty context.
C19_NoCompletionOnEmptyContext ==
    /\ [][(last'.op = "msg_search" /\ last'.reply # "error" /\ last'.results = <<>>) =>
            /\ last'.reply = "not_found"
            /\ running' = Idle
            /\ memories' = memories]_vars
    /\ [][last'.op = "msg_generate" =>
            /\ running.results # <<>>
            /\ last'.messages[1] = SystemMessage(running.results)]_vars

\* A question that passed the count check and whose search found the
\* collection emptied in between.
C19_Witness ==
    /\ last.op = "msg_search"
    /\ last.reply = "not_found"
    /\ cleared[last.user]

C21_AnswerMemoryEffect ==
    [][\A u \in Users :
        /\ (last'.op = "msg_generate" /\ last'.user = u /\ last'.reply = "answer") =>
              LET old == Remembered(u)
                  new == Remembered(u)'
                  q == running.question
              IN  /\ Len(new) = Min(Len(old) + 2, MemoryCap)
                  /\ new[Len(new) - 1] = HumanMessage(q)
                  /\ new[Len(new)] = AIMessage(q)
                  /\ SubSeq(new, 1, Len(new) - 2) = LastN(old, MemoryCap - 2)
                  /\ Stored(u)' = Stored(u)
        /\ (last'.op \in {"msg_search", "msg_generate"} /\ last'.user = u
                /\ last'.reply # "error" /\ last'.reply # "answer") =>
              Remembered(u)' = Remembered(u)
        /\ (last'.op \in {"msg_search", "msg_generate"} /\ last'.user = u
                /\ last'.reply = "error") =>
              /\ running' = Idle
              /\ Remembered(u)' = Remembered(u)
              /\ Stored(u)' = Stored(u)]_vars

\* A completion that failed for a user who has turns remembered and a
\* document indexed.
C21_Witness ==
    /\ last.op = "msg_generate"
    /\ last.reply = "error"
    /\ Remembered(last.user) # <<>>
    /\ Stored(last.user) # <<>>

\* C22: every step of an ingest leaves the collection of its user as it
\* was, except the add, which leaves it holding either what the ingest's
\* clear found there or exactly the chunks of the new document: an ingest
\* never ends with the collection emptied or partly filled.
C22_IngestAllOrNothing ==
    [][\A u \in Users :
        /\ (last'.user = u /\ last'.op \in {"doc_start", "doc_download", "doc_register",
                                              "doc_extract", "doc_done"}) =>
              Stored(u)' = Stored(u)
        /\ (last'.user = u /\ last'.op = "doc_add") =>
              /\ last.op = "doc_clear"
              /\ \/ Stored(u)' = last.before
                 \/ /\ last'.reply # "error"
                    /\ Stored(u)' = NewEntries(u, running.src,
                                               Documents[running.doc].file_name)]_vars

\* C23: every handler in flight ends: the handler that holds the event loop
\* gives it back, and every user with a handler in flight is eventually
\* without one, so later updates of any user can be dispatched.
C23_EveryHandlerEnds ==
    /\ (running # Idle) ~> (running = Idle)
    /\ \A u \in Users : InFlight(u) ~> ~InFlight(u)

\* C24: the history kept beside the memory of a user has one entry per
\* remembered turn, and whenever a completion is requested, every turn of
\* the memory (so every prior turn in the prompt) was produced by a
\* completion given chunks of the one document that the chunks retrieved
\* for this request come from.
C24_TurnsOfCurrentDocument ==
    /\ [](\A u \in Users : Len(answeredFrom[u]) = Len(Remembered(u)))
    /\ [][\A u \in Users : (last'.op = "msg_generate" /\ last'.user = u) =>
            /\ Cardinality(ContextDocuments(running.results)) = 1
            /\ \A i \in 1..Len(answeredFrom[u]) :
                  answeredFrom[u][i] = ContextDocuments(running.results)]_vars

\* A completion requested with prior turns in the prompt while an upload of
\* the same user is in flight.
C24_Witness ==
    /\ last.op = "msg_generate"
    /\ Len(last.messages) > 2
    /\ \E k \in Waiting : k.user = last.user /\ k.pc \in {"download", "register"}

\* Turns alternate, a user turn first, and end with an assistant turn.
WholePairs(turns) ==
    /\ Len(turns) % 2 = 0
    /\ \A i \in 1..Len(turns) :
          turns[i].role = IF i % 2 = 1 THEN "user" ELSE "assistant"

\* C25: in every state the memory of every user is a list of whole
\* question/answer pairs, and the prior turns of every prompt (the messages
\* between the system message and the question) are whole pairs too.
C25_MemoryShape ==
    /\ [](\A u \in DOMAIN memories : WholePairs(memories[u]))
    /\ [][last'.op = "msg_generate" =>
            /\ Len(last'.messages) - 2 <= HistoryWindow
            /\ WholePairs(SubSeq(last'.messages, 2, Len(last'.messages) - 1))]_vars

\* The answer after which the memory was cut to MemoryCap turns, its prompt
\* sent with HistoryWindow prior turns.
C25_Witness ==
    /\ last.op = "msg_generate"
    /\ last.reply = "answer"
    /\ Len(last.messages) = HistoryWindow + 2
    /\ Len(Remembered(last.user)) = MemoryCap
    /\ Remembered(last.user)[1] = HumanMessage(2)

\* C26: in every state, every cached handle is the handle of its user's
\* collection and that collection exists in the client; so for every user
\* the handle that an add, a query or a count obtains refers to a collection
\* that exists.
C26_CacheCoherence ==
    /\ \A u \in DOMAIN collections :
          /\ collections[u] = CollectionName(u)
          /\ collections[u] \in DOMAIN client
    /\ \A u \in Users :
          LET got == get_or_create_collection(Store(client, collections), u)
          IN  got.collections[u] \in DOMAIN got.client

\* A question after a /clear that followed an upload: the count obtained a
\* new handle for the collection it created in place of the deleted one.
C26_Witness ==
    /\ last.op = "msg_start"
    /\ last.count = 0
    /\ cleared[last.user]
    /\ uploads > 0
    /\ last.user \in DOMAIN collections
    /\ Stored(last.user) = <<>>
    /\ \E v \in Users \ {last.user} : v \notin DOMAIN collections

====
